---- MODULE Spec2Model ----
(***************************************************************************)
(* Model of src/main.py: the control cycle (main, run by run_safe) of the  *)
(* MELCloud heating controller, together with its environment: the clock,  *)
(* the people who operate the devices by hand, and the operator who sends  *)
(* Telegram messages.  One run of the script is one step; the state it     *)
(* ends in keeps what the run read, decided and sent until the process     *)
(* exits.  Temperatures are in tenths of a degree Celsius, so that 22.5 is *)
(* 225; timestamps are seconds.  BOT_TOKEN and CHAT_ID are taken to be     *)
(* configured, and writing the two JSON files to succeed.                  *)
(***************************************************************************)
EXTENDS Integers, Sequences, FiniteSets, TLC

\* ---------------------------------------------------------------- constants
UMBRAL_SEGURIDAD_FRIO == -20
UMBRAL_BUEN_TIEMPO_INVIERNO == 190
UMBRAL_CORTE_VERANO == 220
DURACION_BLOQUEO_MANUAL == 3600
DEFAULT_TEMP_AUTO == 210
UMBRAL_AVISO_CALDERA == 10

\* TEMP_OBJETIVOS.get(name, DEFAULT_TEMP_AUTO)
TEMP_OBJETIVOS(name) ==
    CASE name = "Salon"      -> 225
      [] name = "Dormitorio" -> 210
      [] name = "Jimena"     -> 210
      [] name = "Elisa"      -> 210
      [] OTHER               -> DEFAULT_TEMP_AUTO

\* ------------------------------------------------------------------- bounds
MaxTicks == 2          \* the clock advances at most this many times
MaxEvents == 1         \* hand operations and operator messages, together

\* The "ata" devices returned by pymelcloud.get_devices, in list order.
\* "Otro" has no entry in TEMP_OBJETIVOS and takes the default objective.
DeviceList == <<"Salon", "Otro">>
Devices == {DeviceList[k] : k \in 1..Len(DeviceList)}
\* The devices people operate by hand.
HandOperated == {"Salon"}

\* Values a target temperature takes (the two objectives in use).
Targets == {210, 225}
\* Outdoor temperatures the weather service reports.
Temps == {-30, -20, 190, 220}
\* Texts of inbound messages, as the operator typed them.
MsgTexts == {"/reset", "/Stop", "/start", "/info", "hola"}

\* The clock advances in steps of one lockout duration, so that a cycle can
\* run inside a lockout window (no step since it was armed), exactly at its
\* end (one step) and after it (two steps).
TickStep == DURACION_BLOQUEO_MANUAL
StartTime == 2 * DURACION_BLOQUEO_MANUAL

\* -------------------------------------------------------------- dictionaries
EmptyDict == [x \in {} |-> 0]
\* d.get(k, default)
DictGet(d, k, default) == IF k \in DOMAIN d THEN d[k] ELSE default
\* d[k] = v
DictPut(d, k, v) == [x \in (DOMAIN d) \cup {k} |-> IF x = k THEN v ELSE d[x]]

VARIABLES
    now,              \* time.time(): the wall clock
    devPower,         \* real power state of each device
    devTarget,        \* real target temperature of each device
    stateFile,        \* estado_melcloud.json (STATE_FILE)
    regFile,          \* ultima_accion.json (LAST_ACTION_FILE)
    inbox,            \* Telegram updates the bot can still be given, in order
    lastUpdateId,     \* update_id of the newest update the server received
    handOps,          \* number of times a device was operated by hand
    pc,               \* "idle" between runs, "ended" when a run is over
    \* what the run that just ended held (reset when the process exits)
    registro,         \* main: registro, as last modified
    estados_cargados, \* main: estados_previos as load_json returned it
    estados_inicio,   \* main: estados_previos when the for loop started
    estados_previos,  \* main: estados_previos, as last modified
    ahora_ts,         \* main: ahora_ts
    es_invierno,      \* main: es_invierno
    en_horario,       \* main: en_horario
    temp_ext,         \* main: temp_ext
    obs,              \* dev.power / dev.target_temperature after update()
    cmds,             \* the dev.set call made for each device
    rule,             \* the branch of the loop body taken for each device
    sent,             \* the enviar_telegram calls, in order
    resetSeen,        \* a /reset was processed
    outcome,          \* completed, weather_failed, melcloud_failed,
                      \* apply_failed
    failedDev,        \* the device whose dev.set raised, or ""
    \* history across runs
    armedLast,        \* devices whose latest observation armed a lockout
                      \* and that nobody operated by hand since
    heldLast,         \* devices whose latest observation differed from
                      \* memory inside a lockout, armed nothing and was
                      \* followed by no command, not operated by hand since
    setLast,          \* devices that the latest run to reach them left as
                      \* its dev.set call put them, not operated by hand since
    procesados        \* update_id of the messages that the loop of
                      \* check_telegram_commands has gone through in some run

vars == <<now, devPower, devTarget, stateFile, regFile, inbox, lastUpdateId,
          handOps, pc, registro, estados_cargados, estados_inicio,
          estados_previos, ahora_ts,
          es_invierno, en_horario, temp_ext, obs, cmds, rule, sent, resetSeen,
          outcome, failedDev, armedLast, heldLast, setLast, procesados>>

persisted == <<stateFile, regFile>>
world == <<now, devPower, devTarget, inbox, lastUpdateId, handOps>>
run == <<registro, estados_cargados, estados_inicio, estados_previos,
         ahora_ts, es_invierno, en_horario, temp_ext, obs, cmds, rule, sent,
         resetSeen, outcome, failedDev>>
history == <<armedLast, heldLast, setLast, procesados>>

NoCmds == [d \in Devices |-> "none"]
NoRules == [d \in Devices |-> "pending"]
NoObs == [d \in Devices |-> [power |-> FALSE, target_temperature |-> 210]]

\* Nothing is held: no run has ended since the last process exit.
NoRun ==
    /\ registro = EmptyDict
    /\ estados_cargados = EmptyDict
    /\ estados_inicio = EmptyDict
    /\ estados_previos = EmptyDict
    /\ ahora_ts = 0
    /\ es_invierno = FALSE
    /\ en_horario = FALSE
    /\ temp_ext = 0
    /\ obs = NoObs
    /\ cmds = NoCmds
    /\ rule = NoRules
    /\ sent = << >>
    /\ resetSeen = FALSE
    /\ outcome = "completed"
    /\ failedDev = ""

\* load_json(path, default): the file's content, or the default when the
\* file does not exist.
load_json(file, default) == IF file.exists THEN file.data ELSE default

\* save_json(path, data): the file holds the data.
save_json(data) == [exists |-> TRUE, data |-> data]

\* enviar_telegram(session, msg, temp): one more message sent to the chat.
enviar_telegram(log, kind, dev) == Append(log, [kind |-> kind, dev |-> dev])

Init ==
    /\ now = StartTime
    /\ devPower = [d \in Devices |-> FALSE]
    /\ devTarget = [d \in Devices |-> 210]
    /\ stateFile = [exists |-> FALSE, data |-> EmptyDict]
    /\ regFile = [exists |-> FALSE, data |-> EmptyDict]
    /\ inbox = << >>
    /\ lastUpdateId = 0
    /\ handOps = 0
    /\ pc = "idle"
    /\ NoRun
    /\ armedLast = {}
    /\ heldLast = {}
    /\ setLast = {}
    /\ procesados = {}

\* ------------------------------------------------------------- environment
\* Time passes between two runs of the script.
Tick ==
    /\ pc = "idle"
    /\ now < StartTime + MaxTicks * TickStep
    /\ now' = now + TickStep
    /\ UNCHANGED <<devPower, devTarget, inbox, lastUpdateId, handOps,
                   persisted, pc, run, history>>

\* A person changes a device by hand (remote control or app).
HumanChange ==
    /\ pc = "idle"
    /\ handOps + lastUpdateId < MaxEvents
    /\ handOps' = handOps + 1
    /\ \E d \in HandOperated, p \in BOOLEAN, t \in Targets :
         /\ p # devPower[d] \/ t # devTarget[d]
         /\ devPower' = [devPower EXCEPT ![d] = p]
         /\ devTarget' = [devTarget EXCEPT ![d] = t]
         /\ armedLast' = armedLast \ {d}
         /\ heldLast' = heldLast \ {d}
         /\ setLast' = setLast \ {d}
    /\ UNCHANGED <<now, inbox, lastUpdateId, persisted, pc, run, procesados>>

\* The operator sends a message to the bot.
OperatorMessage ==
    /\ pc = "idle"
    /\ handOps + lastUpdateId < MaxEvents
    /\ lastUpdateId' = lastUpdateId + 1
    /\ \E text \in MsgTexts :
         inbox' = Append(inbox, [update_id |-> lastUpdateId + 1, text |-> text])
    /\ UNCHANGED <<now, devPower, devTarget, handOps, persisted, pc, run,
                   history>>

\* ---------------------------------------------------------------- telegram
\* str.lower() on the texts in use.
Lower(text) == IF text = "/Stop" THEN "/stop" ELSE text

\* The test `directive in msg_text` on the texts in use: each holds at most
\* one directive.
Contains(msg_text, directive) == msg_text = directive

\* A reset that leaves the memory store as it was.
ResetBloqueos_Nada(estados) == estados

\* check_telegram_commands, line 102: every entry of the memory store gets
\* bloqueo_hasta = 0.
ResetBloqueos(estados) ==
    [n \in DOMAIN estados |-> [estados[n] EXCEPT !.bloqueo_hasta = 0]]

\* check_telegram_commands, lines 99-113: the body of the loop for one
\* update.  st holds registro, estados, sent and whether a reset was seen.
ProcessUpdate(st, update_id, text) ==
    LET msg_text == Lower(text)
        s0 == [st EXCEPT !.registro =
                 DictPut(st.registro, "last_telegram_update_id", update_id)]
        s1 == IF Contains(msg_text, "/reset")
              THEN [s0 EXCEPT !.estados = ResetBloqueos(s0.estados),
                              !.sent = enviar_telegram(s0.sent, "RESET", ""),
                              !.reset = TRUE]
              ELSE s0
        s2 == IF Contains(msg_text, "/stop")
              THEN [s1 EXCEPT !.registro = DictPut(s1.registro, "stop_mode", TRUE),
                              !.sent = enviar_telegram(s1.sent, "STOP", "")]
              ELSE s1
        s3 == IF Contains(msg_text, "/start")
              THEN [s2 EXCEPT !.registro = DictPut(s2.registro, "stop_mode", FALSE),
                              !.sent = enviar_telegram(s2.sent, "START", "")]
              ELSE s2
        s4 == IF Contains(msg_text, "/info")
              THEN [s3 EXCEPT !.sent = enviar_telegram(s3.sent, "INFO", "")]
              ELSE s3
    IN s4

\* check_telegram_commands, line 98: the loop over the polled updates.
RECURSIVE ProcessUpdates(_, _)
ProcessUpdates(st, results) ==
    IF results = << >> THEN st
    ELSE ProcessUpdates(ProcessUpdate(st, Head(results).update_id,
                                      Head(results).text),
                        Tail(results))

\* ---------------------------------------------------------- decision engine
\* A default memory that does not look at the device.
DefaultMem_Apagado(dev) ==
    [power |-> FALSE, target_temperature |-> DEFAULT_TEMP_AUTO,
     bloqueo_hasta |-> 0]

\* main, line 158: the memory a device without an entry starts with.
DefaultMem(dev) ==
    [power |-> dev.power, target_temperature |-> dev.target_temperature,
     bloqueo_hasta |-> 0]

\* Manual detection that does not look at the lockout in force.
ManualDetectado_SinGuarda(mem, dev, ahora) ==
    \/ mem.power # dev.power
    \/ mem.target_temperature # dev.target_temperature

\* main, lines 163-164: a manual change is detected and arms a lockout.
ManualDetectado(mem, dev, ahora) ==
    /\ (mem.power # dev.power
          \/ mem.target_temperature # dev.target_temperature)
    /\ ahora > mem.bloqueo_hasta

\* A difference found inside the lockout prolongs it by the duration.
GestionBloqueo_Prorroga(mem, dev, ahora) ==
    [power |-> dev.power,
     target_temperature |-> dev.target_temperature,
     bloqueo_hasta |->
         IF mem.power # dev.power
              \/ mem.target_temperature # dev.target_temperature
         THEN IF ahora > mem.bloqueo_hasta
              THEN ahora + DURACION_BLOQUEO_MANUAL
              ELSE mem.bloqueo_hasta + DURACION_BLOQUEO_MANUAL
         ELSE mem.bloqueo_hasta]

\* Arming that stores the present time, without the duration added.
GestionBloqueo_SinDuracion(mem, dev, ahora) ==
    [power |-> dev.power,
     target_temperature |-> dev.target_temperature,
     bloqueo_hasta |-> IF ManualDetectado(mem, dev, ahora)
                       THEN ahora
                       ELSE mem.bloqueo_hasta]

\* main, lines 163-170: the memory after the manual-lockout step.
GestionBloqueo(mem, dev, ahora) ==
    [power |-> dev.power,
     target_temperature |-> dev.target_temperature,
     bloqueo_hasta |-> IF ManualDetectado(mem, dev, ahora)
                       THEN ahora + DURACION_BLOQUEO_MANUAL
                       ELSE mem.bloqueo_hasta]

\* main, line 173: the device is skipped.
EnBloqueo(mem, ahora) == mem.bloqueo_hasta > ahora

\* The decision engine without its safety branch.
MotorDecision_SinSeguridad(temp, invierno, horario, stop_mode, power, target, objetivo) ==
    IF (~invierno) /\ temp < UMBRAL_CORTE_VERANO
    THEN [rule |-> "summer", cmd |-> IF power THEN "off" ELSE "none"]
    ELSE IF stop_mode
    THEN [rule |-> "stop", cmd |-> IF power THEN "off" ELSE "none"]
    ELSE IF invierno /\ ~horario
    THEN [rule |-> "night", cmd |-> IF power THEN "off" ELSE "none"]
    ELSE IF invierno /\ horario /\ temp <= UMBRAL_BUEN_TIEMPO_INVIERNO
    THEN [rule |-> "comfort", cmd |-> IF (~power) \/ target # objetivo THEN "heat" ELSE "none"]
    ELSE [rule |-> "none", cmd |-> "none"]

\* The decision engine with the summer cut-off tied to the active hours.
MotorDecision_VeranoEnHorario(temp, invierno, horario, stop_mode, power, target, objetivo) ==
    IF temp < UMBRAL_SEGURIDAD_FRIO
    THEN [rule |-> "safety", cmd |-> IF power THEN "off" ELSE "none"]
    ELSE IF (~invierno) /\ horario /\ temp < UMBRAL_CORTE_VERANO
    THEN [rule |-> "summer", cmd |-> IF power THEN "off" ELSE "none"]
    ELSE IF stop_mode
    THEN [rule |-> "stop", cmd |-> IF power THEN "off" ELSE "none"]
    ELSE IF invierno /\ ~horario
    THEN [rule |-> "night", cmd |-> IF power THEN "off" ELSE "none"]
    ELSE IF invierno /\ horario /\ temp <= UMBRAL_BUEN_TIEMPO_INVIERNO
    THEN [rule |-> "comfort", cmd |-> IF (~power) \/ target # objetivo THEN "heat" ELSE "none"]
    ELSE [rule |-> "none", cmd |-> "none"]

\* The decision engine sending the heat command whatever the device reports.
MotorDecision_SiempreApoyo(temp, invierno, horario, stop_mode, power, target, objetivo) ==
    IF temp < UMBRAL_SEGURIDAD_FRIO
    THEN [rule |-> "safety", cmd |-> IF power THEN "off" ELSE "none"]
    ELSE IF (~invierno) /\ temp < UMBRAL_CORTE_VERANO
    THEN [rule |-> "summer", cmd |-> IF power THEN "off" ELSE "none"]
    ELSE IF stop_mode
    THEN [rule |-> "stop", cmd |-> IF power THEN "off" ELSE "none"]
    ELSE IF invierno /\ ~horario
    THEN [rule |-> "night", cmd |-> IF power THEN "off" ELSE "none"]
    ELSE IF invierno /\ horario /\ temp <= UMBRAL_BUEN_TIEMPO_INVIERNO
    THEN [rule |-> "comfort", cmd |-> IF TRUE THEN "heat" ELSE "none"]
    ELSE [rule |-> "none", cmd |-> "none"]

\* The decision engine looking at stop_mode only after the winter rules.
MotorDecision_StopAlFinal(temp, invierno, horario, stop_mode, power, target, objetivo) ==
    IF temp < UMBRAL_SEGURIDAD_FRIO
    THEN [rule |-> "safety", cmd |-> IF power THEN "off" ELSE "none"]
    ELSE IF (~invierno) /\ temp < UMBRAL_CORTE_VERANO
    THEN [rule |-> "summer", cmd |-> IF power THEN "off" ELSE "none"]
    ELSE IF invierno /\ ~horario
    THEN [rule |-> "night", cmd |-> IF power THEN "off" ELSE "none"]
    ELSE IF invierno /\ horario /\ temp <= UMBRAL_BUEN_TIEMPO_INVIERNO
    THEN [rule |-> "comfort", cmd |-> IF (~power) \/ target # objetivo THEN "heat" ELSE "none"]
    ELSE IF stop_mode
    THEN [rule |-> "stop", cmd |-> IF power THEN "off" ELSE "none"]
    ELSE [rule |-> "none", cmd |-> "none"]

\* main, lines 180-211: the branch taken and the dev.set call it makes
\* ("off": power False; "heat": power True, target = objetivo, mode heat).
MotorDecision(temp, invierno, horario, stop_mode, power, target, objetivo) ==
    IF temp < UMBRAL_SEGURIDAD_FRIO
    THEN [rule |-> "safety", cmd |-> IF power THEN "off" ELSE "none"]
    ELSE IF (~invierno) /\ temp < UMBRAL_CORTE_VERANO
    THEN [rule |-> "summer", cmd |-> IF power THEN "off" ELSE "none"]
    ELSE IF stop_mode
    THEN [rule |-> "stop", cmd |-> IF power THEN "off" ELSE "none"]
    ELSE IF invierno
         THEN IF ~horario
              THEN [rule |-> "night", cmd |-> IF power THEN "off" ELSE "none"]
              ELSE IF horario /\ temp <= UMBRAL_BUEN_TIEMPO_INVIERNO
                   THEN [rule |-> "comfort",
                         cmd |-> IF (~power) \/ target # objetivo
                                 THEN "heat" ELSE "none"]
                   ELSE [rule |-> "none", cmd |-> "none"]
         ELSE [rule |-> "none", cmd |-> "none"]

\* main, lines 183-210: the memory after a dev.set that returned.
MemAfterSet(mem, cmd, objetivo) ==
    IF cmd = "off" THEN [mem EXCEPT !.power = FALSE]
    ELSE IF cmd = "heat"
         THEN [mem EXCEPT !.power = TRUE, !.target_temperature = objetivo]
         ELSE mem

\* main, lines 184-211: accion_tomada of each branch.
AccionTomada(r) ==
    CASE r = "safety"  -> "SEGURIDAD"
      [] r = "summer"  -> "FRESCO"
      [] r = "stop"    -> "STOP_APAGADO"
      [] r = "night"   -> "NOCHE"
      [] r = "comfort" -> "APOYO"
      [] OTHER         -> "NINGUNA"

\* ------------------------------------------------------------------- cycle
\* A registry whose stop_mode is set to False at every load.
RegistroInicial_StopPorDefecto ==
    LET reg0 == load_json(regFile, EmptyDict)
        reg1 == IF "last_telegram_update_id" \in DOMAIN reg0 THEN reg0
                ELSE DictPut(reg0, "last_telegram_update_id", 0)
    IN DictPut(reg1, "stop_mode", FALSE)

\* main, lines 119-123: the registry as loaded, with its two keys defaulted.
RegistroInicial ==
    LET reg0 == load_json(regFile, EmptyDict)
        reg1 == IF "last_telegram_update_id" \in DOMAIN reg0 THEN reg0
                ELSE DictPut(reg0, "last_telegram_update_id", 0)
    IN IF "stop_mode" \in DOMAIN reg1 THEN reg1
       ELSE DictPut(reg1, "stop_mode", FALSE)

\* main, lines 144-146: in winter at 1 degree or less the boiler warning.
AvisoCaldera(log, invierno, temp) ==
    IF invierno /\ temp <= UMBRAL_AVISO_CALDERA
    THEN enviar_telegram(log, "ALERTA", "")
    ELSE log

\* getUpdates with params offset: the updates with update_id >= offset.
getUpdates(offset) == SelectSeq(inbox, LAMBDA u : u.update_id >= offset)

\* check_telegram_commands, lines 89-114.  With pollOk the updates after
\* the cursor are processed in order; otherwise getUpdates raised or
\* answered another status, which is logged and changes nothing.
check_telegram_commands(st, pollOk) ==
    IF pollOk
    THEN ProcessUpdates(st, getUpdates(st.registro["last_telegram_update_id"] + 1))
    ELSE st

\* main, lines 119-153: registro, estados_previos and the messages sent
\* when the for loop starts.
BeforeLoop(invierno, temp, pollOk) ==
    check_telegram_commands(
        [registro |-> RegistroInicial,
         estados |-> load_json(stateFile, EmptyDict),
         sent |-> AvisoCaldera(<< >>, invierno, temp),
         reset |-> FALSE],
        pollOk)

\* main, lines 156-214: the body of the for loop for the device `name`.
\* st holds what the loop changes: estados (estados_previos), sent, cmds,
\* rule, the devices' real power and target, armed, held and set (armedLast,
\* heldLast, setLast) and failed (the device whose dev.set raised).  e holds what the loop reads.  With
\* `raises`, the dev.set call of this pass raises instead of returning: the
\* device keeps its state and nothing after the call runs.
LoopBody(st, name, e, raises) ==
    LET dev == e.obs[name]
        objetivo == TEMP_OBJETIVOS(name)
        mem0 == DictGet(st.estados, name, DefaultMem(dev))
        manual == ManualDetectado(mem0, dev, e.ahora)
        mem1 == GestionBloqueo(mem0, dev, e.ahora)
        sent1 == IF manual THEN enviar_telegram(st.sent, "MANUAL", name)
                 ELSE st.sent
        dec == IF EnBloqueo(mem1, e.ahora)
               THEN [rule |-> "locked", cmd |-> "none"]
               ELSE MotorDecision(e.temp, e.invierno, e.horario, e.stop_mode,
                                  dev.power, dev.target_temperature, objetivo)
        ok == dec.cmd = "none" \/ ~raises
        mem2 == IF ok THEN MemAfterSet(mem1, dec.cmd, objetivo) ELSE mem1
    IN [estados |-> DictPut(st.estados, name, mem2),
        sent |-> IF ok /\ dec.cmd # "none"
                 THEN enviar_telegram(sent1, AccionTomada(dec.rule), name)
                 ELSE sent1,
        cmds |-> [st.cmds EXCEPT ![name] = dec.cmd],
        rule |-> [st.rule EXCEPT ![name] = dec.rule],
        power |-> IF ok /\ dec.cmd # "none"
                  THEN [st.power EXCEPT ![name] = mem2.power]
                  ELSE st.power,
        target |-> IF ok /\ dec.cmd = "heat"
                   THEN [st.target EXCEPT ![name] = objetivo]
                   ELSE st.target,
        armed |-> IF manual THEN st.armed \cup {name} ELSE st.armed \ {name},
        held |-> IF (~manual) /\ dec.cmd = "none"
                    /\ (mem0.power # dev.power
                          \/ mem0.target_temperature # dev.target_temperature)
                 THEN st.held \cup {name} ELSE st.held \ {name},
        set |-> IF ok /\ dec.cmd # "none"
                THEN st.set \cup {name} ELSE st.set \ {name},
        failed |-> IF ok THEN "" ELSE name]

\* main, line 155: the for loop from position k on; the dev.set call made
\* at position failAt raises (0: none does), which ends the loop.
RECURSIVE RunLoop(_, _, _, _)
RunLoop(st, k, e, failAt) ==
    IF k > Len(DeviceList) \/ st.failed # "" THEN st
    ELSE RunLoop(LoopBody(st, DeviceList[k], e, k = failAt), k + 1, e, failAt)

\* The for loop of a run with the given inputs, from its start.
Loop(b, invierno, horario, temp, failAt) ==
    RunLoop([estados |-> b.estados, sent |-> b.sent, cmds |-> NoCmds,
             rule |-> NoRules, power |-> devPower, target |-> devTarget,
             armed |-> armedLast, held |-> heldLast, set |-> setLast,
             failed |-> ""],
            1,
            [ahora |-> now, temp |-> temp, invierno |-> invierno,
             horario |-> horario, stop_mode |-> b.registro["stop_mode"],
             obs |-> [d \in Devices |->
                        [power |-> devPower[d],
                         target_temperature |-> devTarget[d]]]],
            failAt)

\* What a run that reached the for loop leaves behind, but for the files.
Ran(b, r, invierno, horario, temp) ==
    /\ registro' = b.registro
    /\ estados_cargados' = load_json(stateFile, EmptyDict)
    /\ estados_inicio' = b.estados
    /\ estados_previos' = r.estados
    /\ ahora_ts' = now
    /\ es_invierno' = invierno
    /\ en_horario' = horario
    /\ temp_ext' = temp
    /\ obs' = [d \in Devices |->
                 [power |-> devPower[d], target_temperature |-> devTarget[d]]]
    /\ cmds' = r.cmds
    /\ rule' = r.rule
    /\ sent' = r.sent
    /\ resetSeen' = b.reset
    /\ failedDev' = r.failed
    /\ devPower' = r.power
    /\ devTarget' = r.target
    /\ armedLast' = r.armed
    /\ heldLast' = r.held
    /\ setLast' = r.set
    /\ procesados' = procesados \cup
         {i \in 1..lastUpdateId :
            /\ RegistroInicial["last_telegram_update_id"] < i
            /\ i <= b.registro["last_telegram_update_id"]}

\* What a run that ended before it read the devices leaves behind.
RanNoDevices(log, result) ==
    /\ registro' = RegistroInicial
    /\ estados_cargados' = load_json(stateFile, EmptyDict)
    /\ estados_inicio' = load_json(stateFile, EmptyDict)
    /\ estados_previos' = load_json(stateFile, EmptyDict)
    /\ ahora_ts' = now
    /\ es_invierno' = FALSE
    /\ en_horario' = FALSE
    /\ temp_ext' = 0
    /\ obs' = NoObs
    /\ cmds' = NoCmds
    /\ rule' = NoRules
    /\ sent' = log
    /\ resetSeen' = FALSE
    /\ failedDev' = ""
    /\ outcome' = result
    /\ pc' = "ended"
    /\ UNCHANGED <<world, persisted, history>>

\* A weather failure after which the run goes on with a default reading.
CycleWeatherFails_Sigue ==
    /\ pc = "idle"
    /\ \E invierno \in BOOLEAN, horario \in BOOLEAN :
         LET b == BeforeLoop(invierno, UMBRAL_BUEN_TIEMPO_INVIERNO, TRUE)
             r == Loop(b, invierno, horario, UMBRAL_BUEN_TIEMPO_INVIERNO, 0)
         IN /\ Ran(b, r, invierno, horario, UMBRAL_BUEN_TIEMPO_INVIERNO)
            /\ stateFile' = save_json(r.estados)
            /\ regFile' = save_json(b.registro)
            /\ inbox' = SelectSeq(inbox, LAMBDA u :
                          u.update_id > b.registro["last_telegram_update_id"])
    /\ outcome' = "weather_failed"
    /\ pc' = "ended"
    /\ UNCHANGED <<now, lastUpdateId, handOps>>

\* main, lines 117-141, the weather request or its parsing raising: the
\* error is logged and main returns.
CycleWeatherFails ==
    /\ pc = "idle"
    /\ RanNoDevices(<< >>, "weather_failed")

\* main, lines 117-151, with login, get_devices or an update() raising:
\* nothing catches it before run_safe.
CycleMelcloudFails ==
    /\ pc = "idle"
    /\ \E invierno \in BOOLEAN, temp \in Temps :
         RanNoDevices(AvisoCaldera(<< >>, invierno, temp), "melcloud_failed")

\* A dev.set exception after which the two files are written all the same.
CycleSetRaises_Guarda ==
    /\ pc = "idle"
    /\ \E invierno \in BOOLEAN, horario \in BOOLEAN, temp \in Temps,
          pollOk \in BOOLEAN, failAt \in 1..Len(DeviceList) :
         LET b == BeforeLoop(invierno, temp, pollOk)
             r == Loop(b, invierno, horario, temp, failAt)
         IN /\ r.failed # ""
            /\ Ran(b, r, invierno, horario, temp)
            /\ stateFile' = save_json(r.estados)
            /\ regFile' = save_json(b.registro)
            /\ inbox' = SelectSeq(inbox, LAMBDA u :
                          u.update_id > b.registro["last_telegram_update_id"])
    /\ outcome' = "apply_failed"
    /\ pc' = "ended"
    /\ UNCHANGED <<now, lastUpdateId, handOps>>

\* main, lines 117-211, with a dev.set raising: nothing in main catches
\* the exception, so the loop and main end there and run_safe logs it.
\* The server forgets the updates that the getUpdates call confirmed.
CycleSetRaises ==
    /\ pc = "idle"
    /\ \E invierno \in BOOLEAN, horario \in BOOLEAN, temp \in Temps,
          pollOk \in BOOLEAN, failAt \in 1..Len(DeviceList) :
         LET b == BeforeLoop(invierno, temp, pollOk)
             r == Loop(b, invierno, horario, temp, failAt)
         IN /\ r.failed # ""
            /\ Ran(b, r, invierno, horario, temp)
            /\ inbox' = IF pollOk
                        THEN getUpdates(RegistroInicial["last_telegram_update_id"] + 1)
                        ELSE inbox
    /\ outcome' = "apply_failed"
    /\ pc' = "ended"
    /\ UNCHANGED <<now, lastUpdateId, handOps, persisted>>

\* main, lines 117-220, every call after the weather request returning:
\* the loop runs over all devices and both files are written.  The updates
\* at or below the saved cursor are never asked for again and are dropped.
Cycle ==
    /\ pc = "idle"
    /\ \E invierno \in BOOLEAN, horario \in BOOLEAN, temp \in Temps,
          pollOk \in BOOLEAN :
         LET b == BeforeLoop(invierno, temp, pollOk)
             r == Loop(b, invierno, horario, temp, 0)
         IN /\ Ran(b, r, invierno, horario, temp)
            /\ stateFile' = save_json(r.estados)
            /\ regFile' = save_json(b.registro)
            /\ inbox' = SelectSeq(inbox, LAMBDA u :
                          u.update_id > b.registro["last_telegram_update_id"])
    /\ outcome' = "completed"
    /\ pc' = "ended"
    /\ UNCHANGED <<now, lastUpdateId, handOps>>

\* run_safe, lines 222-226: main returned, or the exception that ended it
\* was logged; the process exits and what it held is gone.
Exit ==
    /\ pc = "ended"
    /\ pc' = "idle"
    /\ registro' = EmptyDict
    /\ estados_cargados' = EmptyDict
    /\ estados_inicio' = EmptyDict
    /\ estados_previos' = EmptyDict
    /\ ahora_ts' = 0
    /\ es_invierno' = FALSE
    /\ en_horario' = FALSE
    /\ temp_ext' = 0
    /\ obs' = NoObs
    /\ cmds' = NoCmds
    /\ rule' = NoRules
    /\ sent' = << >>
    /\ resetSeen' = FALSE
    /\ outcome' = "completed"
    /\ failedDev' = ""
    /\ UNCHANGED <<world, persisted, history>>

Next ==
    \/ Tick
    \/ HumanChange
    \/ OperatorMessage
    \/ CycleWeatherFails
    \/ CycleMelcloudFails
    \/ CycleSetRaises
    \/ Cycle
    \/ Exit

Spec == Init /\ [][Next]_vars

\* ---------------------------------------------------------------- properties
\* A run has ended and its record is in the state.
Ended == pc = "ended"
\* The for loop of the run reached device d.
Reached(d) == rule[d] # "pending"
\* The memory of device d as the for loop found it (line 158).
MemInicio(d) == DictGet(estados_inicio, d, DefaultMem(obs[d]))
\* bloqueo_hasta of device d in a memory store, 0 for a device without entry.
BloqueoEn(estados, d) ==
    IF d \in DOMAIN estados THEN estados[d].bloqueo_hasta ELSE 0
\* The observed state of d differs from its memory.
Difiere(d) ==
    \/ MemInicio(d).power # obs[d].power
    \/ MemInicio(d).target_temperature # obs[d].target_temperature
\* A message of this kind about device d was sent.
Notified(log, kind, d) ==
    \E k \in 1..Len(log) : log[k] = [kind |-> kind, dev |-> d]
\* Some message about an automatic action on device d was sent.
ActionNotified(log, d) ==
    \E k \in 1..Len(log) :
        /\ log[k].dev = d
        /\ log[k].kind \in {"SEGURIDAD", "FRESCO", "STOP_APAGADO", "NOCHE", "APOYO"}

\* C1: a device whose lockout has not expired at decision time, the instant
\* now = lockout_until included, gets no command.  The code skips a device
\* only while bloqueo_hasta > ahora_ts, so this fails at equality.
C1_LockoutSuppresses ==
    \A d \in Devices :
        (Ended /\ Reached(d) /\ ahora_ts <= estados_previos[d].bloqueo_hasta)
            => cmds[d] = "none"

\* C2, as stated: during a safety condition every device observed powered
\* on is issued a power-off command.  Read here on the runs that complete,
\* where a device in lockout is skipped all the same.
C2_SafetyEveryDevice ==
    \A d \in Devices :
        (Ended /\ outcome = "completed" /\ temp_ext < UMBRAL_SEGURIDAD_FRIO
           /\ obs[d].power)
            => cmds[d] = "off"

\* C2, amended: during a safety condition every device that the loop
\* reaches, that is observed powered on and that is not in lockout after
\* the manual-lockout step is issued a power-off command, whatever the
\* season, the hours, the stop flag or its target.
C2_SafetyPrecedence ==
    \A d \in Devices :
        (Ended /\ Reached(d) /\ temp_ext < UMBRAL_SEGURIDAD_FRIO
           /\ obs[d].power /\ ~EnBloqueo(estados_previos[d], ahora_ts))
            => (cmds[d] = "off" /\ rule[d] = "safety")

\* C2: the safety rule has turned off a device on a winter day inside the
\* active hours with the stop flag clear, where the comfort rule would heat.
C2_Witness ==
    /\ Ended
    /\ es_invierno /\ en_horario /\ ~registro["stop_mode"]
    /\ temp_ext < UMBRAL_SEGURIDAD_FRIO
    /\ \E d \in Devices :
         /\ Reached(d) /\ obs[d].power
         /\ ~EnBloqueo(estados_previos[d], ahora_ts)
         /\ cmds[d] = "off"

\* C3: bloqueo_hasta changes only by arming or by a reset.  Within a run the
\* reset can only zero it; the loop changes it only when the observed state
\* differs from memory and the lockout in memory has expired, and then to
\* now + DURACION_BLOQUEO_MANUAL.  The value in the state file never goes
\* down from one run to the next but in a run that processes /reset.
C3_LockoutMonotonic ==
    /\ [](Ended =>
            /\ \A d \in DOMAIN estados_cargados :
                 \/ estados_inicio[d].bloqueo_hasta = estados_cargados[d].bloqueo_hasta
                 \/ resetSeen /\ estados_inicio[d].bloqueo_hasta = 0
            /\ \A d \in Devices : Reached(d) =>
                 \/ estados_previos[d].bloqueo_hasta = MemInicio(d).bloqueo_hasta
                 \/ /\ Difiere(d)
                    /\ ahora_ts > MemInicio(d).bloqueo_hasta
                    /\ estados_previos[d].bloqueo_hasta
                         = ahora_ts + DURACION_BLOQUEO_MANUAL)
    /\ [][\A d \in Devices :
            \/ BloqueoEn(stateFile'.data, d) >= BloqueoEn(stateFile.data, d)
            \/ resetSeen']_vars

\* C3: a device whose earlier lockout has expired is armed again, so that its
\* bloqueo_hasta goes up from one nonzero value to a later one.
C3_Witness ==
    /\ Ended /\ outcome = "completed"
    /\ \E d \in Devices :
         /\ Reached(d)
         /\ BloqueoEn(estados_cargados, d) > 0
         /\ BloqueoEn(estados_cargados, d) < ahora_ts
         /\ estados_previos[d].bloqueo_hasta = ahora_ts + DURACION_BLOQUEO_MANUAL
         /\ stateFile.data = estados_previos

\* C4: a device for which the latest run that reached it detected a manual
\* change, and that nobody has touched since, is not detected again: no
\* second manual-change notification is sent for it.
C4_EdgeTriggered ==
    [][\A d \in Devices :
         (pc = "idle" /\ pc' = "ended" /\ d \in armedLast /\ rule'[d] # "pending")
            => ~Notified(sent', "MANUAL", d)]_vars

\* C5: in a run that processes /reset every entry of the memory store has
\* bloqueo_hasta 0 when the loop starts, and a device whose observed state
\* matches memory is not skipped: it keeps bloqueo_hasta 0 and the decision
\* engine decides on it.
C5_ResetClears ==
    (Ended /\ resetSeen) =>
        /\ \A d \in DOMAIN estados_inicio : estados_inicio[d].bloqueo_hasta = 0
        /\ \A d \in Devices :
             (Reached(d) /\ ~Difiere(d)) =>
                 /\ rule[d] # "locked"
                 /\ estados_previos[d].bloqueo_hasta = 0

\* C5: a device whose stored lockout had not expired gets a command in the
\* run that processes /reset.
C5_Witness ==
    /\ Ended /\ resetSeen
    /\ \E d \in Devices :
         /\ Reached(d) /\ ~Difiere(d)
         /\ BloqueoEn(estados_cargados, d) > ahora_ts
         /\ cmds[d] # "none"

\* C6: a dev.set that raises is contained: the loop goes on to the remaining
\* devices, the state file and the registry are written, and the memory of
\* the failed device is not advanced to the state the command intended.
C6_ApplyFailureContained ==
    (Ended /\ failedDev # "") =>
        /\ \A d \in Devices : Reached(d)
        /\ stateFile = save_json(estados_previos)
        /\ regFile = save_json(registro)
        /\ estados_previos[failedDev].power = obs[failedDev].power
        /\ estados_previos[failedDev].target_temperature
             = obs[failedDev].target_temperature

\* C7: a run whose weather reading fails writes neither file, sends no device
\* command and leaves the devices as they were.
C7_WeatherFailureAborts ==
    [][(pc = "idle" /\ pc' = "ended" /\ outcome' = "weather_failed")
         => /\ stateFile' = stateFile
            /\ regFile' = regFile
            /\ devPower' = devPower
            /\ devTarget' = devTarget
            /\ cmds' = NoCmds
            /\ sent' = << >>]_vars

\* C7: a weather failure in a run that had a stored memory, a device that is
\* on and an unread message to act on.
C7_Witness ==
    /\ Ended /\ outcome = "weather_failed"
    /\ stateFile.exists
    /\ inbox # << >>
    /\ \E d \in Devices : devPower[d]

\* The number of the first rule of the policy list that matches.
PrimeraRegla(temp, invierno, horario, stop_mode) ==
    IF temp < UMBRAL_SEGURIDAD_FRIO THEN 1
    ELSE IF (~invierno) /\ temp < UMBRAL_CORTE_VERANO THEN 2
    ELSE IF stop_mode THEN 3
    ELSE IF invierno /\ ~horario THEN 4
    ELSE IF invierno /\ horario /\ temp <= UMBRAL_BUEN_TIEMPO_INVIERNO THEN 5
    ELSE 6

\* C8: for a device that is reached and not in lockout the first matching
\* rule of the list decides.  Rules 1 to 4 leave it off, with a power-off
\* command exactly when it was observed on; rule 5 leaves it on at its
\* objective; under rule 6 no command is issued and it stays as observed.
C8_FirstMatchWins ==
    \A d \in Devices :
        (Ended /\ Reached(d) /\ ~EnBloqueo(estados_previos[d], ahora_ts)) =>
            LET n == PrimeraRegla(temp_ext, es_invierno, en_horario,
                                  registro["stop_mode"])
                applied == d # failedDev
            IN /\ n \in 1..4 =>
                    /\ cmds[d] = IF obs[d].power THEN "off" ELSE "none"
                    /\ applied => (~devPower[d] /\ ~estados_previos[d].power)
               /\ n = 5 =>
                    /\ cmds[d] \in {"heat", "none"}
                    /\ applied =>
                         /\ devPower[d] /\ devTarget[d] = TEMP_OBJETIVOS(d)
                         /\ estados_previos[d].power
                         /\ estados_previos[d].target_temperature
                              = TEMP_OBJETIVOS(d)
               /\ n = 6 =>
                    /\ cmds[d] = "none"
                    /\ devPower[d] = obs[d].power
                    /\ devTarget[d] = obs[d].target_temperature

\* C8: outside winter and outside the active hours, below the summer cut-off
\* and with the stop flag set, a device that was on has been turned off.
C8_Witness ==
    /\ Ended /\ outcome = "completed"
    /\ ~es_invierno /\ ~en_horario /\ registro["stop_mode"]
    /\ temp_ext >= UMBRAL_SEGURIDAD_FRIO /\ temp_ext < UMBRAL_CORTE_VERANO
    /\ \E d \in Devices :
         /\ obs[d].power /\ cmds[d] = "off" /\ ~devPower[d]

\* The comfort rule is the one that applies.
ReglaApoyo ==
    /\ es_invierno /\ en_horario /\ ~registro["stop_mode"]
    /\ temp_ext >= UMBRAL_SEGURIDAD_FRIO
    /\ temp_ext <= UMBRAL_BUEN_TIEMPO_INVIERNO

\* C9: when the comfort rule applies to a device observed on at its
\* objective, no command is issued and no action is notified; and a heat
\* command that returned leaves the device and its memory on at the objective.
C9_ComfortIdempotent ==
    \A d \in Devices :
        (Ended /\ Reached(d) /\ ~EnBloqueo(estados_previos[d], ahora_ts)
           /\ ReglaApoyo) =>
            /\ (obs[d].power /\ obs[d].target_temperature = TEMP_OBJETIVOS(d))
                 => (cmds[d] = "none" /\ ~ActionNotified(sent, d))
            /\ (cmds[d] = "heat" /\ d # failedDev)
                 => /\ devPower[d] /\ devTarget[d] = TEMP_OBJETIVOS(d)
                    /\ estados_previos[d].power
                    /\ estados_previos[d].target_temperature = TEMP_OBJETIVOS(d)

\* C9: the comfort rule applies to a device already on at its objective and
\* leaves it alone.
C9_Witness ==
    /\ Ended /\ ReglaApoyo
    /\ \E d \in Devices :
         /\ Reached(d) /\ rule[d] = "comfort"
         /\ obs[d].power /\ obs[d].target_temperature = TEMP_OBJETIVOS(d)
         /\ cmds[d] = "none"

\* C10: while stop_mode is true at decision time no heat command is issued,
\* and every device that is reached, not in lockout and observed on is
\* issued a power-off command, the run that polls /stop included.
C10_GlobalStop ==
    \A d \in Devices :
        (Ended /\ registro["stop_mode"]) =>
            /\ cmds[d] # "heat"
            /\ (Reached(d) /\ ~EnBloqueo(estados_previos[d], ahora_ts)
                  /\ obs[d].power)
                 => cmds[d] = "off"

\* C10: the run that polls /stop turns off a device on a winter day inside
\* the active hours at a temperature where the comfort rule would heat.
C10_Witness ==
    /\ Ended /\ registro["stop_mode"]
    /\ Notified(sent, "STOP", "")
    /\ es_invierno /\ en_horario
    /\ temp_ext >= UMBRAL_SEGURIDAD_FRIO
    /\ temp_ext <= UMBRAL_BUEN_TIEMPO_INVIERNO
    /\ \E d \in Devices : obs[d].power /\ cmds[d] = "off"

\* last_telegram_update_id in a registry file, 0 when it holds none.
CursorOf(file) ==
    DictGet(load_json(file, EmptyDict), "last_telegram_update_id", 0)
\* A run has been through the message with this update_id in this step.
PolledNow(id) ==
    /\ pc = "idle" /\ pc' = "ended"
    /\ CursorOf(regFile) < id
    /\ id <= registro'["last_telegram_update_id"]
\* The text holds a directive the bot acts on.
HasDirective(text) ==
    \E directive \in {"/reset", "/stop", "/start", "/info"} :
        Contains(Lower(text), directive)
\* The number of messages of this kind about device d that were sent.
CountNotified(log, kind, d) ==
    Cardinality({k \in 1..Len(log) : log[k] = [kind |-> kind, dev |-> d]})

\* C11: the stored cursor never goes down, and when a run is over it equals
\* the cursor the run reached (line 99: the update_id of the last message
\* polled, whatever its text).  A run that ends in a dev.set exception
\* after polling leaves the stored cursor behind.
C11_CursorAdvances ==
    /\ [](Ended => CursorOf(regFile) = registro["last_telegram_update_id"])
    /\ [][CursorOf(regFile') >= CursorOf(regFile)]_vars

\* C12: a message that holds a directive and that an earlier run has been
\* through is not polled and processed again by a later run.
C12_NoReprocessing ==
    [][\A k \in 1..Len(inbox) :
         (inbox[k].update_id \in procesados /\ HasDirective(inbox[k].text))
            => ~PolledNow(inbox[k].update_id)]_vars

\* C13: a device that is reached, whose observed power or target differs
\* from memory and whose lockout in memory has expired (now > bloqueo_hasta)
\* gets bloqueo_hasta = now + DURACION_BLOQUEO_MANUAL, exactly one
\* manual-change notification, and no command: the decision engine is skipped.
C13_Arming ==
    \A d \in Devices :
        (Ended /\ Reached(d) /\ Difiere(d)
           /\ ahora_ts > MemInicio(d).bloqueo_hasta) =>
            /\ estados_previos[d].bloqueo_hasta
                 = ahora_ts + DURACION_BLOQUEO_MANUAL
            /\ CountNotified(sent, "MANUAL", d) = 1
            /\ rule[d] = "locked"
            /\ cmds[d] = "none"
            /\ ~ActionNotified(sent, d)
            /\ devPower[d] = obs[d].power
            /\ devTarget[d] = obs[d].target_temperature

\* C13: a device that was on is armed below the safety threshold, where the
\* decision engine would have turned it off.
C13_Witness ==
    /\ Ended /\ temp_ext < UMBRAL_SEGURIDAD_FRIO
    /\ \E d \in Devices :
         /\ Reached(d) /\ Difiere(d) /\ obs[d].power
         /\ ahora_ts > MemInicio(d).bloqueo_hasta
         /\ estados_previos[d].bloqueo_hasta
              = ahora_ts + DURACION_BLOQUEO_MANUAL

\* C14: a difference between a device and its memory that a run finds while
\* the lockout in memory has not expired (now <= bloqueo_hasta) arms nothing
\* and is not notified, in that run or in a later run that finds the device
\* as that run left it: bloqueo_hasta does not go up.
C14_NoArmInsideLockout ==
    /\ [](\A d \in Devices :
            (Ended /\ Reached(d) /\ Difiere(d)
               /\ ahora_ts <= MemInicio(d).bloqueo_hasta) =>
                /\ ~Notified(sent, "MANUAL", d)
                /\ estados_previos[d].bloqueo_hasta = MemInicio(d).bloqueo_hasta)
    /\ [][\A d \in Devices :
            (pc = "idle" /\ pc' = "ended" /\ d \in heldLast
               /\ rule'[d] # "pending") =>
                /\ ~Notified(sent', "MANUAL", d)
                /\ estados_previos'[d].bloqueo_hasta
                     <= BloqueoEn(estados_cargados', d)]_vars

\* C15: when a run completes, the memory of each device holds the observed
\* power and target if no command was issued to it and the commanded ones if
\* one was; and a device that is as the engine's last command left it, not
\* operated by hand since, is not detected as changed by the next run that
\* reaches it.
C15_MemoryTracksDevice ==
    /\ [](\A d \in Devices :
            (Ended /\ outcome = "completed") =>
                /\ cmds[d] = "none" =>
                     /\ estados_previos[d].power = obs[d].power
                     /\ estados_previos[d].target_temperature
                          = obs[d].target_temperature
                /\ cmds[d] = "off" =>
                     /\ ~estados_previos[d].power
                     /\ estados_previos[d].target_temperature
                          = obs[d].target_temperature
                /\ cmds[d] = "heat" =>
                     /\ estados_previos[d].power
                     /\ estados_previos[d].target_temperature = TEMP_OBJETIVOS(d)
                /\ estados_previos[d].power = devPower[d]
                /\ estados_previos[d].target_temperature = devTarget[d])
    /\ [][\A d \in Devices :
            (pc = "idle" /\ pc' = "ended" /\ d \in setLast
               /\ rule'[d] # "pending") =>
                /\ ~Notified(sent', "MANUAL", d)
                /\ d \notin armedLast']_vars

\* C16: the two files change only in the step that ends a completed run,
\* where they get the run's final estados_previos and registro; a run that
\* ends early leaves both as they were, and every run reads the state file
\* as it was when the run started.
C16_PersistedOnlyAtEnd ==
    [][/\ (pc = "idle" /\ pc' = "ended") =>
            /\ estados_cargados' = load_json(stateFile, EmptyDict)
            /\ outcome' # "completed" =>
                 (stateFile' = stateFile /\ regFile' = regFile)
       /\ (stateFile' # stateFile \/ regFile' # regFile) =>
            /\ pc = "idle" /\ pc' = "ended" /\ outcome' = "completed"
            /\ stateFile' = save_json(estados_previos')
            /\ regFile' = save_json(registro')]_vars

\* C16: a run has ended in a dev.set exception holding a memory and a
\* registry that differ from the files, which still exist as before.
C16_Witness ==
    /\ Ended /\ outcome = "apply_failed"
    /\ stateFile.exists /\ regFile.exists
    /\ estados_previos # stateFile.data
    /\ registro # regFile.data

\* stop_mode in a registry file, False when it holds none.
StopOf(file) == DictGet(load_json(file, EmptyDict), "stop_mode", FALSE)
\* The acknowledgement of the directive that sets stop_mode to v was sent.
StopDirective(log, v) ==
    IF v THEN Notified(log, "STOP", "") ELSE Notified(log, "START", "")

\* C17: stop_mode, in the run's registry and in the stored one, differs from
\* the stored value the run started with only if the run processed the /stop
\* or /start directive that gives it the new value; no other step changes it.
C17_StopModeFrame ==
    [][IF pc = "idle" /\ pc' = "ended"
       THEN /\ registro'["stop_mode"] # StopOf(regFile)
                 => StopDirective(sent', registro'["stop_mode"])
            /\ StopOf(regFile') # StopOf(regFile)
                 => StopDirective(sent', StopOf(regFile'))
       ELSE StopOf(regFile') = StopOf(regFile)]_vars

\* C17: a completed run that got no /stop finds stop_mode set by an earlier
\* run, turns a device off under it and stores it set.
C17_Witness ==
    /\ Ended /\ outcome = "completed"
    /\ registro["stop_mode"] /\ StopOf(regFile)
    /\ ~Notified(sent, "STOP", "")
    /\ \E d \in Devices : rule[d] = "stop" /\ cmds[d] = "off"

\* C18: a device that is reached and has no entry in the memory store when
\* the loop starts is not detected as changed: no manual-change notification,
\* bloqueo_hasta stays 0, the decision engine decides on it, and its memory
\* ends as the observed state or, after a command that returned, the
\* commanded one.
C18_FirstSeen ==
    \A d \in Devices :
        (Ended /\ Reached(d) /\ d \notin DOMAIN estados_inicio) =>
            /\ ~Notified(sent, "MANUAL", d)
            /\ d \notin armedLast
            /\ estados_previos[d].bloqueo_hasta = 0
            /\ rule[d] # "locked"
            /\ estados_previos[d] =
                 IF d = failedDev THEN DefaultMem(obs[d])
                 ELSE MemAfterSet(DefaultMem(obs[d]), cmds[d], TEMP_OBJETIVOS(d))

\* C18: a device without entry that is already on is turned off.
C18_Witness ==
    /\ Ended
    /\ \E d \in Devices :
         /\ Reached(d) /\ d \notin DOMAIN estados_inicio
         /\ obs[d].power /\ cmds[d] = "off"

\* C19: no bloqueo_hasta, stored or in a run's memory, is later than the time
\* of the latest run plus DURACION_BLOQUEO_MANUAL; and a device is skipped
\* only under a lockout armed in this run or a stored one that has not
\* expired, which a difference found inside the window leaves as it is.
C19_LockoutBound ==
    /\ \A d \in DOMAIN stateFile.data :
         stateFile.data[d].bloqueo_hasta <= now + DURACION_BLOQUEO_MANUAL
    /\ Ended =>
         /\ \A d \in DOMAIN stateFile.data :
              stateFile.data[d].bloqueo_hasta
                <= ahora_ts + DURACION_BLOQUEO_MANUAL
         /\ \A d \in DOMAIN estados_previos :
              estados_previos[d].bloqueo_hasta
                <= ahora_ts + DURACION_BLOQUEO_MANUAL
         /\ \A d \in Devices :
              (Reached(d) /\ rule[d] = "locked") =>
                 \/ /\ d \in armedLast
                    /\ estados_previos[d].bloqueo_hasta
                         = ahora_ts + DURACION_BLOQUEO_MANUAL
                 \/ /\ estados_previos[d].bloqueo_hasta
                         = BloqueoEn(estados_cargados, d)
                    /\ ahora_ts < BloqueoEn(estados_cargados, d)

\* C19: a device is found changed inside its lockout and stays skipped under
\* the stored bloqueo_hasta, which is not moved.
C19_Witness ==
    /\ Ended
    /\ \E d \in Devices :
         /\ Reached(d) /\ Difiere(d) /\ rule[d] = "locked"
         /\ ahora_ts < MemInicio(d).bloqueo_hasta
         /\ estados_previos[d].bloqueo_hasta = MemInicio(d).bloqueo_hasta

====
